---- MODULE Spec2Model ----
(***************************************************************************)
(* State-machine model of the IT helpdesk service                          *)
(* (srv/helpdesk-service.js, db/schema.cds, srv/helpdesk-service.cds).     *)
(*                                                                         *)
(* The persistent store is the state: the Tickets, Comments and AuditLogs  *)
(* tables.  Every request handler is one action that runs the whole        *)
(* handler: its reads, its checks in source order, its writes in source    *)
(* order and its response; requests are then served one at a time.         *)
(* resolveTicket is also modelled one awaited statement at a time, for     *)
(* requests that run concurrently, and so is the creation of a ticket.     *)
(*                                                                         *)
(* Encoding of JavaScript values:                                          *)
(*   - null / undefined is Null (the empty tuple), a present value v of a  *)
(*     nullable column or parameter is Some(v) (a one-element tuple);      *)
(*   - free text whose length is tested (title, description, resolution    *)
(*     note, reason) and the ticket number are sequences of characters;    *)
(*   - enum values, labels and messages are strings;                       *)
(*   - an instant is a natural number of hours since the model's epoch;    *)
(*   - a request payload (req.data) is a record that has exactly the       *)
(*     fields the client sent.                                             *)
(* Columns that no handler reads or writes after the insert (title,        *)
(* description, reporter, department, the managed fields) are not kept in  *)
(* the stored row.                                                         *)
(***************************************************************************)
EXTENDS Integers, Sequences, FiniteSets, TLC

VARIABLES
  tickets,    \* Tickets table: ticket ID -> row (DOMAIN = the stored IDs)
  comments,   \* Comments table, in insertion order
  auditLogs,  \* AuditLogs table, in insertion order
  now,        \* the server clock (new Date())
  resp,       \* the response to the last request served
  writes,     \* writing requests served so far (bounds the model)
  requests,   \* requests in flight that run one awaited statement at a time
  formatted   \* a ticket number being formatted: its inputs and its text

vars ==
  <<tickets, comments, auditLogs, now, resp, writes, requests, formatted>>

\* what a request that is served in one step leaves alone
idle == <<requests, formatted>>

(***************************************************************************)
(* Bounds of the model.                                                    *)
(***************************************************************************)
MaxTickets == 2     \* tickets stored at a time
MaxWrites == 4      \* requests that write to the store
MaxTime == 1        \* years the clock advances
NearRollover == 2   \* distance of the ticket counts tried from a power of ten
MaxRequests == 2    \* requests run one awaited statement at a time

(***************************************************************************)
(* JavaScript values.                                                      *)
(***************************************************************************)
Null == <<>>
Some(v) == <<v>>
Val(x) == x[1]

\* req.data.f of a payload: undefined (Null) when the client sent no f
Get(data, f) == IF f \in DOMAIN data THEN data[f] ELSE Null

\* x || dflt for a nullable string parameter
OrElse(x, dflt) == IF x = Null \/ x = Some("") THEN dflt ELSE Val(x)

IsSpace(c) == c = " "

RECURSIVE TrimStart(_)
TrimStart(s) ==
  IF s # <<>> /\ IsSpace(Head(s)) THEN TrimStart(Tail(s)) ELSE s

RECURSIVE TrimEnd(_)
TrimEnd(s) ==
  IF s # <<>> /\ IsSpace(s[Len(s)]) THEN TrimEnd(SubSeq(s, 1, Len(s) - 1)) ELSE s

\* String.prototype.trim
Trim(s) == TrimEnd(TrimStart(s))

\* mutant: the length is taken without trim()
TooShort_NoTrim(text, n) ==
  \/ text = Null
  \/ Len(Val(text)) < n

\* !text || text.trim().length < n, for a nullable text parameter
TooShort(text, n) ==
  \/ text = Null
  \/ Val(text) = <<>>
  \/ Len(Trim(Val(text))) < n

(***************************************************************************)
(* Enumerations of db/schema.cds.                                          *)
(***************************************************************************)
TicketStatus == {"OPEN", "IN_PROGRESS", "ON_HOLD", "RESOLVED", "CLOSED"}

TicketPriority == {"LOW", "MEDIUM", "HIGH", "CRITICAL"}

(***************************************************************************)
(* Master data.  Agents and Categories are read-only in HelpdeskService.   *)
(***************************************************************************)
Agents ==
  { [ID |-> "agt-0001", name |-> "John Smith", isActive |-> TRUE],
    [ID |-> "agt-0009", name |-> "Former Agent", isActive |-> FALSE] }

AgentIDs == {"agt-0001", "agt-0009", "non-existent-agent"}


Categories ==
  { [ID |-> "cat-0002", slaHours |-> Some(1)],
    [ID |-> "cat-0003", slaHours |-> Null] }

(***************************************************************************)
(* Query helpers (cds.ql).                                                 *)
(***************************************************************************)
\* SELECT.one.from(Tickets).where({ ID: ticketID })
SelectTicket(ticketID) ==
  IF ticketID \in DOMAIN tickets THEN Some(tickets[ticketID]) ELSE Null

\* mutant: the query does not test isActive
SelectActiveAgent_AnyAgent(agentID) ==
  IF \E a \in Agents : a.ID = agentID
    THEN Some(CHOOSE a \in Agents : a.ID = agentID)
    ELSE Null

\* SELECT.one.from(Agents).where({ ID: agentID, isActive: true })
SelectActiveAgent(agentID) ==
  IF \E a \in Agents : a.ID = agentID /\ a.isActive
    THEN Some(CHOOSE a \in Agents : a.ID = agentID /\ a.isActive)
    ELSE Null

\* the IDs that are stored or that a comment or an audit record refers to
UsedIDs ==
  DOMAIN tickets
    \cup {comments[i].ticket_ID : i \in DOMAIN comments}
    \cup {auditLogs[i].ticket_ID : i \in DOMAIN auditLogs}

\* cuid: the key given to a new ticket is one that was never given before
\* (keys are numbered in the order they are given)
NewID == CHOOSE id \in 1..(Cardinality(UsedIDs) + 1) :
           \A used \in UsedIDs : used < id

\* SELECT.one.from(Categories).where({ ID: categoryID })
SelectCategory(categoryID) ==
  IF \E c \in Categories : Some(c.ID) = categoryID
    THEN Some(CHOOSE c \in Categories : Some(c.ID) = categoryID)
    ELSE Null

\* UPDATE(Tickets).set(set).where({ ID: ticketID }) applied to table tbl
UpdateTicket(tbl, ticketID, set) ==
  [id \in DOMAIN tbl |->
     IF id = ticketID
       THEN [f \in DOMAIN tbl[id] |->
               IF f \in DOMAIN set THEN set[f] ELSE tbl[id][f]]
       ELSE tbl[id]]

\* INSERT.into(Comments).entries(entry) applied to table tbl
InsertComment(tbl, entry) == Append(tbl, entry)

\* a template literal `${prefix}${text}` whose argument is free text
Template(prefix, text) == <<prefix>> \o text

\* `${x}` of a nullable string
Interp(x) == IF x = Null THEN "null" ELSE Val(x)

\* String.prototype.toLowerCase on a ticket status
toLowerCase(s) ==
  CASE s = "OPEN" -> "open"
    [] s = "IN_PROGRESS" -> "in_progress"
    [] s = "ON_HOLD" -> "on_hold"
    [] s = "RESOLVED" -> "resolved"
    [] s = "CLOSED" -> "closed"
    [] OTHER -> s

(***************************************************************************)
(* Requests and responses.                                                 *)
(***************************************************************************)
\* req.error(code, message)
Err(code, message) == [code |-> code, message |-> message]

NoErrors == <<>>

\* no request has been answered yet
NoResponse == [code |-> 0, errors |-> NoErrors, data |-> Null]

\* the response to a request that recorded errors: nothing more runs
Rejected(errors) ==
  [code |-> errors[1].code, errors |-> errors, data |-> Null]

\* the response to a request that returned a row
Returned(code, row) ==
  [code |-> code, errors |-> NoErrors, data |-> Some(row)]

\* a request that writes is served while the model's budget lasts
Served == writes < MaxWrites /\ writes' = writes + 1

\* a request that ends in errors writes nothing
Reject(errors) ==
  /\ resp' = Rejected(errors)
  /\ UNCHANGED <<tickets, comments, auditLogs, now, writes, idle>>

(***************************************************************************)
(* PRIVATE HELPER METHODS                                                  *)
(***************************************************************************)
\* oldValue ? String(oldValue) : null
AuditValue(v) == IF v = Null \/ v = Some("") THEN Null ELSE v

\* mutant: the entry is never inserted
_logAudit_NoInsert(log, ticketID, action, oldValue, newValue, performedBy) ==
  log

\* mutant: the entry replaces the last record of the table
_logAudit_Overwrite(log, ticketID, action, oldValue, newValue, performedBy) ==
  LET entry == [ ticket_ID   |-> ticketID,
                 action      |-> action,
                 oldValue    |-> AuditValue(oldValue),
                 newValue    |-> AuditValue(newValue),
                 performedBy |-> OrElse(performedBy, "System"),
                 performedAt |-> now ]
  IN IF log = <<>> THEN <<entry>> ELSE [log EXCEPT ![Len(log)] = entry]

\* _logAudit(ticketID, action, oldValue, newValue, performedBy) on table log
_logAudit(log, ticketID, action, oldValue, newValue, performedBy) ==
  Append(log,
    [ ticket_ID   |-> ticketID,
      action      |-> action,
      oldValue    |-> AuditValue(oldValue),
      newValue    |-> AuditValue(newValue),
      performedBy |-> OrElse(performedBy, "System"),
      performedAt |-> now ])

\* mutant: the levels table has no entry for CRITICAL
_escalatePriority_NoCeiling(current) ==
  CASE current = Some("LOW") -> "MEDIUM"
    [] current = Some("MEDIUM") -> "HIGH"
    [] current = Some("HIGH") -> "CRITICAL"
    [] OTHER -> "HIGH"

\* _escalatePriority(current)
_escalatePriority(current) ==
  CASE current = Some("LOW") -> "MEDIUM"
    [] current = Some("MEDIUM") -> "HIGH"
    [] current = Some("HIGH") -> "CRITICAL"
    [] current = Some("CRITICAL") -> "CRITICAL"
    [] OTHER -> "HIGH"

(***************************************************************************)
(* CUSTOM ACTIONS                                                          *)
(* Each handler is split into its checks (the errors it returns, in source *)
(* order), the values it writes, and the action that runs them.            *)
(***************************************************************************)

\* ---- ACTION: Assign an agent to a ticket -------------------------------
\* mutant: the test for a closed ticket is missing
assignAgentErrors_NoClosedTest(ticket, ticketID, agentID) ==
  IF ticket = Null
    THEN <<Err(404, "Ticket not found: " \o ToString(ticketID))>>
  ELSE IF SelectActiveAgent(agentID) = Null
    THEN <<Err(404, "Active agent not found: " \o agentID)>>
  ELSE NoErrors

assignAgentErrors(ticket, ticketID, agentID) ==
  IF ticket = Null
    THEN <<Err(404, "Ticket not found: " \o ToString(ticketID))>>
  ELSE IF Val(ticket).status = "CLOSED"
    THEN <<Err(409, "Cannot assign agent to a closed ticket")>>
  ELSE IF SelectActiveAgent(agentID) = Null
    THEN <<Err(404, "Active agent not found: " \o agentID)>>
  ELSE NoErrors

assignAgentSet(agentID) ==
  [assignedTo_ID |-> Some(agentID), status |-> "IN_PROGRESS"]

assignAgent(ticketID, agentID, remarks) ==
  LET ticket == SelectTicket(ticketID)
      errors == assignAgentErrors(ticket, ticketID, agentID)
      agent == SelectActiveAgent(agentID)
      oldAgent == Val(ticket).assignedTo_ID
      updated == UpdateTicket(tickets, ticketID, assignAgentSet(agentID))
  IN IF errors # NoErrors
       THEN Reject(errors)
       ELSE /\ Served
            /\ tickets' = updated
            /\ auditLogs' = _logAudit(auditLogs, ticketID, "Agent Assigned",
                 IF oldAgent # Null
                   THEN Some("Agent: " \o Val(oldAgent))
                   ELSE Some("Unassigned"),
                 Some("Agent: " \o Val(agent).name),
                 Some(OrElse(remarks, "System")))
            /\ resp' = Returned(200, updated[ticketID])
            /\ UNCHANGED <<comments, now, idle>>

\* ---- ACTION: Change ticket priority ------------------------------------
changePriorityErrors(ticket, ticketID, priority) ==
  IF priority = Null \/ Val(priority) \notin TicketPriority
    THEN <<Err(400, "Invalid priority. Must be one of: LOW, MEDIUM, HIGH, CRITICAL")>>
  ELSE IF ticket = Null
    THEN <<Err(404, "Ticket not found: " \o ToString(ticketID))>>
  ELSE NoErrors

\* mutant: the update also moves the ticket to IN_PROGRESS
changePrioritySet_AlsoStatus(priority) ==
  [priority |-> priority, status |-> "IN_PROGRESS"]

changePrioritySet(priority) == [priority |-> priority]

changePriority(ticketID, priority, reason) ==
  LET ticket == SelectTicket(ticketID)
      errors == changePriorityErrors(ticket, ticketID, priority)
      oldPriority == Val(ticket).priority
      updated == UpdateTicket(tickets, ticketID, changePrioritySet(priority))
  IN IF errors # NoErrors
       THEN Reject(errors)
       ELSE /\ Served
            /\ tickets' = updated
            /\ auditLogs' = _logAudit(auditLogs, ticketID, "Priority Changed",
                 oldPriority, priority, Some(OrElse(reason, "System")))
            /\ resp' = Returned(200, updated[ticketID])
            /\ UNCHANGED <<comments, now, idle>>

\* ---- ACTION: Resolve a ticket ------------------------------------------
\* mutant: only CLOSED blocks a resolve
resolveTicketErrors_ClosedOnly(ticket, ticketID, resolutionNote) ==
  IF ticket = Null
    THEN <<Err(404, "Ticket not found: " \o ToString(ticketID))>>
  ELSE IF Val(ticket).status = "CLOSED"
    THEN <<Err(409, "Ticket is already " \o toLowerCase(Val(ticket).status))>>
  ELSE IF TooShort(resolutionNote, 10)
    THEN <<Err(400, "Resolution note must be at least 10 characters long")>>
  ELSE NoErrors

resolveTicketErrors(ticket, ticketID, resolutionNote) ==
  IF ticket = Null
    THEN <<Err(404, "Ticket not found: " \o ToString(ticketID))>>
  ELSE IF Val(ticket).status \in {"RESOLVED", "CLOSED"}
    THEN <<Err(409, "Ticket is already " \o toLowerCase(Val(ticket).status))>>
  ELSE IF TooShort(resolutionNote, 10)
    THEN <<Err(400, "Resolution note must be at least 10 characters long")>>
  ELSE NoErrors

resolveTicketSet(resolvedAt, resolutionNote) ==
  [status |-> "RESOLVED", resolvedAt |-> resolvedAt,
   resolutionNote |-> resolutionNote]

\* mutant: the system comment is written as an internal note
resolveTicketComment_Internal(ticketID, resolutionNote, agentName) ==
  [ ticket_ID   |-> ticketID,
    content     |-> Template("Ticket resolved. Note: ", Val(resolutionNote)),
    isInternal  |-> TRUE,
    authorName  |-> OrElse(agentName, "Support Agent"),
    authorEmail |-> "" ]

resolveTicketComment(ticketID, resolutionNote, agentName) ==
  [ ticket_ID   |-> ticketID,
    content     |-> Template("Ticket resolved. Note: ", Val(resolutionNote)),
    isInternal  |-> FALSE,
    authorName  |-> OrElse(agentName, "Support Agent"),
    authorEmail |-> "" ]

resolveTicket(ticketID, resolutionNote, agentName) ==
  LET ticket == SelectTicket(ticketID)
      errors == resolveTicketErrors(ticket, ticketID, resolutionNote)
      resolvedAt == Some(now)
      updated == UpdateTicket(tickets, ticketID,
                   resolveTicketSet(resolvedAt, resolutionNote))
  IN IF errors # NoErrors
       THEN Reject(errors)
       ELSE /\ Served
            /\ tickets' = updated
            /\ comments' = InsertComment(comments,
                 resolveTicketComment(ticketID, resolutionNote, agentName))
            /\ auditLogs' = _logAudit(auditLogs, ticketID, "Ticket Resolved",
                 Some(Val(ticket).status), Some("RESOLVED"),
                 Some(OrElse(agentName, "System")))
            /\ resp' = Returned(200, updated[ticketID])
            /\ UNCHANGED <<now, idle>>

\* ---- ACTION: Close a ticket --------------------------------------------
\* mutant: the test that the ticket is RESOLVED is missing
closeTicketErrors_AnyOpen(ticket, ticketID) ==
  IF ticket = Null
    THEN <<Err(404, "Ticket not found: " \o ToString(ticketID))>>
  ELSE IF Val(ticket).status = "CLOSED"
    THEN <<Err(409, "Ticket is already closed")>>
  ELSE NoErrors

closeTicketErrors(ticket, ticketID) ==
  IF ticket = Null
    THEN <<Err(404, "Ticket not found: " \o ToString(ticketID))>>
  ELSE IF Val(ticket).status = "CLOSED"
    THEN <<Err(409, "Ticket is already closed")>>
  ELSE IF Val(ticket).status # "RESOLVED"
    THEN <<Err(409, "Only resolved tickets can be closed. Please resolve the ticket first")>>
  ELSE NoErrors

closeTicketSet(closedAt) == [status |-> "CLOSED", closedAt |-> closedAt]

closeTicket(ticketID, agentName) ==
  LET ticket == SelectTicket(ticketID)
      errors == closeTicketErrors(ticket, ticketID)
      closedAt == Some(now)
      updated == UpdateTicket(tickets, ticketID, closeTicketSet(closedAt))
  IN IF errors # NoErrors
       THEN Reject(errors)
       ELSE /\ Served
            /\ tickets' = updated
            /\ auditLogs' = _logAudit(auditLogs, ticketID, "Ticket Closed",
                 Some("RESOLVED"), Some("CLOSED"),
                 Some(OrElse(agentName, "System")))
            /\ resp' = Returned(200, updated[ticketID])
            /\ UNCHANGED <<comments, now, idle>>

\* ---- ACTION: Escalate a ticket -----------------------------------------
escalateTicketErrors(ticket, ticketID) ==
  IF ticket = Null
    THEN <<Err(404, "Ticket not found: " \o ToString(ticketID))>>
  ELSE IF Val(ticket).status \in {"RESOLVED", "CLOSED"}
    THEN <<Err(409, "Cannot escalate a resolved or closed ticket")>>
  ELSE NoErrors

\* mutant: the escalation also drops the due date
escalateTicketSet_ClearsDueDate(newPriority) ==
  [priority |-> Some(newPriority), status |-> "IN_PROGRESS", dueDate |-> Null]

escalateTicketSet(newPriority) ==
  [priority |-> Some(newPriority), status |-> "IN_PROGRESS"]

escalateTicketComment(ticketID, reason, agentName) ==
  [ ticket_ID   |-> ticketID,
    content     |-> Template("Ticket escalated. Reason: ",
                      IF reason = Null \/ Val(reason) = <<>>
                        THEN <<"No reason provided">>
                        ELSE Val(reason)),
    isInternal  |-> TRUE,
    authorName  |-> OrElse(agentName, "System"),
    authorEmail |-> "" ]

escalateTicket(ticketID, reason, agentName) ==
  LET ticket == SelectTicket(ticketID)
      errors == escalateTicketErrors(ticket, ticketID)
      oldPriority == Val(ticket).priority
      newPriority == _escalatePriority(oldPriority)
      updated == UpdateTicket(tickets, ticketID, escalateTicketSet(newPriority))
  IN IF errors # NoErrors
       THEN Reject(errors)
       ELSE /\ Served
            /\ tickets' = updated
            /\ comments' = InsertComment(comments,
                 escalateTicketComment(ticketID, reason, agentName))
            /\ auditLogs' = _logAudit(auditLogs, ticketID, "Ticket Escalated",
                 Some("Priority: " \o Interp(oldPriority)),
                 Some("Priority: " \o newPriority),
                 Some(OrElse(agentName, "System")))
            /\ resp' = Returned(200, updated[ticketID])
            /\ UNCHANGED <<now, idle>>

\* ---- ACTION: Reopen a closed/resolved ticket ---------------------------
reopenTicketErrors(ticket, ticketID, reason) ==
  IF ticket = Null
    THEN <<Err(404, "Ticket not found: " \o ToString(ticketID))>>
  ELSE IF Val(ticket).status \notin {"RESOLVED", "CLOSED"}
    THEN <<Err(409, "Only resolved or closed tickets can be reopened")>>
  ELSE IF TooShort(reason, 5)
    THEN <<Err(400, "A reason must be provided to reopen a ticket")>>
  ELSE NoErrors

\* mutant: closedAt is not cleared
reopenTicketSet_KeepClosedAt ==
  [status |-> "OPEN", resolvedAt |-> Null, resolutionNote |-> Null]

\* mutant: resolutionNote is not cleared
reopenTicketSet_KeepNote ==
  [status |-> "OPEN", resolvedAt |-> Null, closedAt |-> Null]

reopenTicketSet ==
  [status |-> "OPEN", resolvedAt |-> Null, closedAt |-> Null,
   resolutionNote |-> Null]

reopenTicketComment(ticketID, reason, agentName) ==
  [ ticket_ID   |-> ticketID,
    content     |-> Template("Ticket reopened. Reason: ", Val(reason)),
    isInternal  |-> FALSE,
    authorName  |-> OrElse(agentName, "System"),
    authorEmail |-> "" ]

\* mutant: the ticket is updated before the reason is tested
reopenTicket_UpdateFirst(ticketID, reason, agentName) ==
  LET ticket == SelectTicket(ticketID)
      errors == reopenTicketErrors(ticket, ticketID, reason)
      updated == UpdateTicket(tickets, ticketID, reopenTicketSet)
  IN IF errors # NoErrors
       THEN /\ resp' = Rejected(errors)
            /\ tickets' = IF errors[1].code = 400 THEN updated ELSE tickets
            /\ UNCHANGED <<comments, auditLogs, now, writes, idle>>
       ELSE /\ Served
            /\ tickets' = updated
            /\ comments' = InsertComment(comments,
                 reopenTicketComment(ticketID, reason, agentName))
            /\ auditLogs' = _logAudit(auditLogs, ticketID, "Ticket Reopened",
                 Some(Val(ticket).status), Some("OPEN"),
                 Some(OrElse(agentName, "System")))
            /\ resp' = Returned(200, updated[ticketID])
            /\ UNCHANGED <<now, idle>>

reopenTicket(ticketID, reason, agentName) ==
  LET ticket == SelectTicket(ticketID)
      errors == reopenTicketErrors(ticket, ticketID, reason)
      updated == UpdateTicket(tickets, ticketID, reopenTicketSet)
  IN IF errors # NoErrors
       THEN Reject(errors)
       ELSE /\ Served
            /\ tickets' = updated
            /\ comments' = InsertComment(comments,
                 reopenTicketComment(ticketID, reason, agentName))
            /\ auditLogs' = _logAudit(auditLogs, ticketID, "Ticket Reopened",
                 Some(Val(ticket).status), Some("OPEN"),
                 Some(OrElse(agentName, "System")))
            /\ resp' = Returned(200, updated[ticketID])
            /\ UNCHANGED <<now, idle>>

(***************************************************************************)
(* BEFORE / AFTER HOOKS of the generated CRUD on Tickets                   *)
(***************************************************************************)
EpochYear == 2024
HoursPerYear == 8760

\* new Date().getFullYear()
getFullYear(t) == EpochYear + (t \div HoursPerYear)

DigitChars == <<"0", "1", "2", "3", "4", "5", "6", "7", "8", "9">>

\* String(n) of a natural number, as characters
RECURSIVE StringOfNat(_)
StringOfNat(n) ==
  IF n < 10 THEN <<DigitChars[n + 1]>>
  ELSE StringOfNat(n \div 10) \o <<DigitChars[(n % 10) + 1]>>

\* String.prototype.padStart(n, c)
RECURSIVE padStart(_, _, _)
padStart(s, n, c) == IF Len(s) >= n THEN s ELSE padStart(<<c>> \o s, n, c)

\* `TKT-${year}-${seq}` from the count of stored tickets
ticketNumberFor(year, total) ==
  <<"T", "K", "T", "-">> \o StringOfNat(year) \o <<"-">>
    \o padStart(StringOfNat(total + 1), 5, "0")

\* the inputs of a ticket number that is not formatted yet
NotFormatted(year, total) ==
  [year |-> year, total |-> total, ticketNumber |-> <<>>]

\* before CREATE, lines 22-25 alone: the number for a year and a count
FormatTicketNumber ==
  /\ formatted.ticketNumber = <<>>
  /\ formatted' = [formatted EXCEPT
                     !.ticketNumber = ticketNumberFor(formatted.year,
                                                      formatted.total)]
  /\ UNCHANGED <<tickets, comments, auditLogs, now, resp, writes, requests>>

\* the text of a character sequence, for messages
RECURSIVE Text(_)
Text(s) == IF s = <<>> THEN "" ELSE Head(s) \o Text(Tail(s))

\* before CREATE (1), from the year read and the tickets counted: ticket
\* number, due date from the category SLA, status
beforeCreateData(data, year, total) ==
  LET category == SelectCategory(Get(data, "category_ID"))
      numbered == [ticketNumber |-> ticketNumberFor(year, total),
                   status |-> "OPEN"]
  IN IF Get(data, "category_ID") # Null /\ category # Null
          /\ Val(category).slaHours \notin {Null, Some(0)}
       THEN numbered
              @@ [dueDate |-> Some(now + Val(Val(category).slaHours))]
              @@ data
       ELSE numbered @@ data

\* mutant: a status sent by the client is kept
beforeCreateDefaults_KeepStatus(data) ==
  LET year == getFullYear(now)
      total == Cardinality(DOMAIN tickets)
      category == SelectCategory(Get(data, "category_ID"))
      numbered == [ticketNumber |-> ticketNumberFor(year, total)]
  IN IF Get(data, "category_ID") # Null /\ category # Null
          /\ Val(category).slaHours \notin {Null, Some(0)}
       THEN numbered
              @@ [dueDate |-> Some(now + Val(Val(category).slaHours))]
              @@ data @@ [status |-> "OPEN"]
       ELSE numbered @@ data @@ [status |-> "OPEN"]

\* before CREATE (1) of a request served in one step
beforeCreateDefaults(data) ==
  beforeCreateData(data, getFullYear(now), Cardinality(DOMAIN tickets))

\* before CREATE (2): validation; every failed test records an error
beforeCreateErrors(data) ==
  (IF TooShort(Get(data, "title"), 5)
     THEN <<Err(400, "Ticket title must be at least 5 characters long")>>
     ELSE NoErrors)
  \o (IF TooShort(Get(data, "description"), 10)
        THEN <<Err(400, "Ticket description must be at least 10 characters long")>>
        ELSE NoErrors)
  \o (IF Get(data, "reporter_ID") \in {Null, Some("")}
        THEN <<Err(400, "Reporter is required to create a ticket")>>
        ELSE NoErrors)

\* the row the generated INSERT stores for payload data: schema defaults
\* for the fields the payload does not have
TicketRow(id, data) ==
  [ ID             |-> id,
    ticketNumber   |-> data.ticketNumber,
    status         |-> IF "status" \in DOMAIN data THEN data.status ELSE "OPEN",
    priority       |-> IF "priority" \in DOMAIN data
                         THEN data.priority ELSE Some("MEDIUM"),
    category_ID    |-> Get(data, "category_ID"),
    assignedTo_ID  |-> Get(data, "assignedTo_ID"),
    resolvedAt     |-> Get(data, "resolvedAt"),
    closedAt       |-> Get(data, "closedAt"),
    dueDate        |-> Get(data, "dueDate"),
    resolutionNote |-> Get(data, "resolutionNote"),
    isOverdue      |-> IF "isOverdue" \in DOMAIN data
                         THEN data.isOverdue ELSE FALSE ]

\* POST /helpdesk/Tickets: before hooks, the generated INSERT, after hook
CreateTicket(payload) ==
  LET data == beforeCreateDefaults(payload)
      errors == beforeCreateErrors(data)
      id == NewID
      ticket == TicketRow(id, data)
  IN IF errors # NoErrors
       THEN Reject(errors)
       ELSE /\ Cardinality(DOMAIN tickets) < MaxTickets
            /\ Served
            /\ tickets' = [i \in DOMAIN tickets \cup {id} |->
                             IF i = id THEN ticket ELSE tickets[i]]
            /\ auditLogs' = _logAudit(auditLogs, ticket.ID, "Ticket Created",
                 Null, Some(ticket.status), Some("System"))
            /\ resp' = Returned(201, ticket)
            /\ UNCHANGED <<comments, now, idle>>

\* mutant: the status is compared with a value no ticket has
beforeUpdateErrors_WrongCase(ticket) ==
  IF ticket # Null /\ Val(ticket).status = "Closed"
    THEN <<Err(409, "Ticket " \o Text(Val(ticket).ticketNumber)
                      \o " is closed and cannot be modified")>>
    ELSE NoErrors

\* before UPDATE: closed tickets cannot be edited
beforeUpdateErrors(ticket) ==
  IF ticket # Null /\ Val(ticket).status = "CLOSED"
    THEN <<Err(409, "Ticket " \o Text(Val(ticket).ticketNumber)
                      \o " is closed and cannot be modified")>>
    ELSE NoErrors

\* PATCH /helpdesk/Tickets(ID): before hook, then the generated UPDATE
UpdateTickets(ticketID, payload) ==
  LET ticket == SelectTicket(ticketID)
      errors == beforeUpdateErrors(ticket)
      updated == UpdateTicket(tickets, ticketID, payload)
  IN IF errors # NoErrors
       THEN Reject(errors)
     ELSE IF ticket = Null
       THEN Reject(<<Err(404, "Not Found")>>)
     ELSE /\ Served
          /\ tickets' = updated
          /\ resp' = Returned(200, updated[ticketID])
          /\ UNCHANGED <<comments, auditLogs, now, idle>>

\* the response to a request that returns no content
NoContent(code) == [code |-> code, errors |-> NoErrors, data |-> Null]

\* DELETE /helpdesk/Tickets(ID): no hook is registered; the generated DELETE
\* removes the row and the comments composed in it, the audit records stay
DeleteTickets(ticketID) ==
  IF ticketID \notin DOMAIN tickets
    THEN Reject(<<Err(404, "Not Found")>>)
    ELSE /\ Served
         /\ tickets' = [id \in DOMAIN tickets \ {ticketID} |-> tickets[id]]
         /\ comments' = SelectSeq(comments,
                          LAMBDA entry : entry.ticket_ID # ticketID)
         /\ resp' = NoContent(204)
         /\ UNCHANGED <<auditLogs, now, idle>>

\* mutant: the comparison with the clock is reversed
afterRead_Reversed(ticket) ==
  IF /\ ticket.dueDate # Null
     /\ now < Val(ticket.dueDate)
     /\ ticket.status \notin {"RESOLVED", "CLOSED"}
    THEN [ticket EXCEPT !.isOverdue = TRUE]
    ELSE ticket

\* after READ: the overdue flag is set on the rows of the result
afterRead(ticket) ==
  IF /\ ticket.dueDate # Null
     /\ Val(ticket.dueDate) < now
     /\ ticket.status \notin {"RESOLVED", "CLOSED"}
    THEN [ticket EXCEPT !.isOverdue = TRUE]
    ELSE ticket

\* GET /helpdesk/Tickets (key = Null) or /helpdesk/Tickets(key): the
\* generated SELECT, then the after hook on its result
\* the collection is returned as { value: rows }, one ticket as the row
ReadTickets(key) ==
  LET list == [id \in DOMAIN tickets |-> afterRead(tickets[id])]
  IN /\ resp' = IF key = Null
                    THEN Returned(200, [value |-> list])
                  ELSE IF Val(key) \in DOMAIN tickets
                    THEN Returned(200, afterRead(tickets[Val(key)]))
                  ELSE Rejected(<<Err(404, "Not Found")>>)
     /\ UNCHANGED <<tickets, comments, auditLogs, now, writes, idle>>

\* the instants at which the clock is read: the starts of the first years
\* after the epoch
Instants == {y * HoursPerYear : y \in 0..MaxTime}

\* time passes between requests
Tick ==
  /\ \E t \in Instants : t > now /\ now' = t
  /\ UNCHANGED <<tickets, comments, auditLogs, resp, writes, idle>>

(***************************************************************************)
(* resolveTicket, one awaited statement at a time.  A request in flight    *)
(* keeps its parameters, the row its SELECT returned, the statement it     *)
(* runs next (pc) and its response.  Requests in flight interleave between *)
(* their statements: nothing in the handler holds a lock on the ticket.    *)
(***************************************************************************)
\* the request arrives: const { ticketID, resolutionNote, agentName }
resolveReceive(ticketID, resolutionNote, agentName) ==
  /\ Len(requests) < MaxRequests
  /\ requests' = Append(requests,
       [ pc             |-> "select",
         ticketID       |-> ticketID,
         resolutionNote |-> resolutionNote,
         agentName      |-> agentName,
         ticket         |-> Null,
         resp           |-> NoResponse ])
  /\ UNCHANGED <<tickets, comments, auditLogs, now, resp, writes, formatted>>

\* const ticket = await SELECT.one.from(Tickets).where({ ID: ticketID })
resolveSelect(r) ==
  /\ requests[r].pc = "select"
  /\ requests' = [requests EXCEPT
                    ![r].ticket = SelectTicket(requests[r].ticketID),
                    ![r].pc = "update"]
  /\ UNCHANGED <<tickets, comments, auditLogs, now, resp, writes, formatted>>

\* mutant: the tests are made again on the ticket as it is stored at the
\* time of the update
resolveUpdate_Rechecked(r) ==
  LET req == requests[r]
      onRead == resolveTicketErrors(req.ticket, req.ticketID,
                                    req.resolutionNote)
      errors == IF onRead # NoErrors THEN onRead
                ELSE resolveTicketErrors(SelectTicket(req.ticketID),
                                         req.ticketID, req.resolutionNote)
  IN /\ req.pc = "update"
     /\ IF errors # NoErrors
          THEN /\ resp' = Rejected(errors)
               /\ requests' = [requests EXCEPT ![r].pc = "done",
                                               ![r].resp = Rejected(errors)]
               /\ UNCHANGED tickets
          ELSE /\ tickets' = UpdateTicket(tickets, req.ticketID,
                    resolveTicketSet(Some(now), req.resolutionNote))
               /\ requests' = [requests EXCEPT ![r].pc = "comment"]
               /\ UNCHANGED resp
     /\ UNCHANGED <<comments, auditLogs, now, writes, formatted>>

\* the tests on the row that was read, then await UPDATE(Tickets).set(...)
resolveUpdate(r) ==
  LET req == requests[r]
      errors == resolveTicketErrors(req.ticket, req.ticketID,
                                    req.resolutionNote)
  IN /\ req.pc = "update"
     /\ IF errors # NoErrors
          THEN /\ resp' = Rejected(errors)
               /\ requests' = [requests EXCEPT ![r].pc = "done",
                                               ![r].resp = Rejected(errors)]
               /\ UNCHANGED tickets
          ELSE /\ tickets' = UpdateTicket(tickets, req.ticketID,
                    resolveTicketSet(Some(now), req.resolutionNote))
               /\ requests' = [requests EXCEPT ![r].pc = "comment"]
               /\ UNCHANGED resp
     /\ UNCHANGED <<comments, auditLogs, now, writes, formatted>>

\* await INSERT.into(Comments).entries(...)
resolveComment(r) ==
  LET req == requests[r]
  IN /\ req.pc = "comment"
     /\ comments' = InsertComment(comments,
          resolveTicketComment(req.ticketID, req.resolutionNote,
                               req.agentName))
     /\ requests' = [requests EXCEPT ![r].pc = "audit"]
     /\ UNCHANGED <<tickets, auditLogs, now, resp, writes, formatted>>

\* await this._logAudit(ticketID, 'Ticket Resolved', ticket.status, ...)
resolveAudit(r) ==
  LET req == requests[r]
  IN /\ req.pc = "audit"
     /\ auditLogs' = _logAudit(auditLogs, req.ticketID, "Ticket Resolved",
          Some(Val(req.ticket).status), Some("RESOLVED"),
          Some(OrElse(req.agentName, "System")))
     /\ requests' = [requests EXCEPT ![r].pc = "return"]
     /\ UNCHANGED <<tickets, comments, now, resp, writes, formatted>>

\* the response to a request whose handler threw: the handlers catch nothing
Thrown == Rejected(<<Err(500, "Internal Server Error")>>)

\* await INSERT.into(Comments) rejects: the handler ends there, with the
\* ticket updated
resolveCommentFails(r) ==
  /\ requests[r].pc = "comment"
  /\ resp' = Thrown
  /\ requests' = [requests EXCEPT ![r].pc = "thrown at comment",
                                  ![r].resp = Thrown]
  /\ UNCHANGED <<tickets, comments, auditLogs, now, writes, formatted>>

\* mutant: the writes of the request are undone when the audit insert fails
resolveAuditFails_RollsBack(r) ==
  LET req == requests[r]
      mine == resolveTicketComment(req.ticketID, req.resolutionNote,
                                   req.agentName)
      last == CHOOSE i \in DOMAIN comments :
                /\ comments[i] = mine
                /\ \A j \in DOMAIN comments : comments[j] = mine => j <= i
  IN /\ req.pc = "audit"
     /\ tickets' = [tickets EXCEPT ![req.ticketID] = Val(req.ticket)]
     /\ comments' = SubSeq(comments, 1, last - 1)
                      \o SubSeq(comments, last + 1, Len(comments))
     /\ resp' = Thrown
     /\ requests' = [requests EXCEPT ![r].pc = "thrown at audit",
                                     ![r].resp = Thrown]
     /\ UNCHANGED <<auditLogs, now, writes, formatted>>

\* await this._logAudit(...) rejects: the handler ends there, with the
\* ticket updated and the comment inserted
resolveAuditFails(r) ==
  /\ requests[r].pc = "audit"
  /\ resp' = Thrown
  /\ requests' = [requests EXCEPT ![r].pc = "thrown at audit",
                                  ![r].resp = Thrown]
  /\ UNCHANGED <<tickets, comments, auditLogs, now, writes, formatted>>

\* return await SELECT.one.from(Tickets).where({ ID: ticketID })
resolveReturn(r) ==
  LET req == requests[r]
      returned == Returned(200, tickets[req.ticketID])
  IN /\ req.pc = "return"
     /\ resp' = returned
     /\ requests' = [requests EXCEPT ![r].pc = "done", ![r].resp = returned]
     /\ UNCHANGED <<tickets, comments, auditLogs, now, writes, formatted>>

(***************************************************************************)
(* The creation of a ticket, one awaited statement at a time.  A request   *)
(* in flight keeps its payload, the year it read, the count its SELECT     *)
(* returned, the key of the row it inserted, the statement it runs next    *)
(* (pc) and its response.                                                  *)
(***************************************************************************)
\* the request arrives: const year = new Date().getFullYear()
createReceive(payload) ==
  /\ Len(requests) < MaxRequests
  /\ requests' = Append(requests,
       [ pc     |-> "count",
         data   |-> payload,
         year   |-> getFullYear(now),
         total  |-> 0,
         ticket |-> Null,
         resp   |-> NoResponse ])
  /\ UNCHANGED <<tickets, comments, auditLogs, now, resp, writes, formatted>>

\* const count = await SELECT.one`count(*) as total`.from(Tickets)
createCount(r) ==
  /\ requests[r].pc = "count"
  /\ requests' = [requests EXCEPT
                    ![r].total = Cardinality(DOMAIN tickets),
                    ![r].pc = "insert"]
  /\ UNCHANGED <<tickets, comments, auditLogs, now, resp, writes, formatted>>

\* mutant: the tickets are counted again when the row is inserted
createInsert_Recount(r) ==
  LET req == requests[r]
      data == beforeCreateData(req.data, req.year, Cardinality(DOMAIN tickets))
      errors == beforeCreateErrors(data)
      id == NewID
  IN /\ req.pc = "insert"
     /\ IF errors # NoErrors
          THEN /\ resp' = Rejected(errors)
               /\ requests' = [requests EXCEPT ![r].pc = "done",
                                               ![r].resp = Rejected(errors)]
               /\ UNCHANGED tickets
          ELSE /\ Cardinality(DOMAIN tickets) < MaxTickets
               /\ tickets' = [i \in DOMAIN tickets \cup {id} |->
                                IF i = id THEN TicketRow(id, data)
                                          ELSE tickets[i]]
               /\ requests' = [requests EXCEPT ![r].pc = "audit",
                                               ![r].ticket = Some(id)]
               /\ UNCHANGED resp
     /\ UNCHANGED <<comments, auditLogs, now, writes, formatted>>

\* the rest of the before hooks (number, due date, status, validation), then
\* the generated INSERT
createInsert(r) ==
  LET req == requests[r]
      data == beforeCreateData(req.data, req.year, req.total)
      errors == beforeCreateErrors(data)
      id == NewID
  IN /\ req.pc = "insert"
     /\ IF errors # NoErrors
          THEN /\ resp' = Rejected(errors)
               /\ requests' = [requests EXCEPT ![r].pc = "done",
                                               ![r].resp = Rejected(errors)]
               /\ UNCHANGED tickets
          ELSE /\ Cardinality(DOMAIN tickets) < MaxTickets
               /\ tickets' = [i \in DOMAIN tickets \cup {id} |->
                                IF i = id THEN TicketRow(id, data)
                                          ELSE tickets[i]]
               /\ requests' = [requests EXCEPT ![r].pc = "audit",
                                               ![r].ticket = Some(id)]
               /\ UNCHANGED resp
     /\ UNCHANGED <<comments, auditLogs, now, writes, formatted>>

\* after CREATE: await this._logAudit(ticket.ID, 'Ticket Created', ...),
\* then the response
createAudit(r) ==
  LET req == requests[r]
      ticket == tickets[Val(req.ticket)]
      returned == Returned(201, ticket)
  IN /\ req.pc = "audit"
     /\ auditLogs' = _logAudit(auditLogs, ticket.ID, "Ticket Created",
          Null, Some(ticket.status), Some("System"))
     /\ resp' = returned
     /\ requests' = [requests EXCEPT ![r].pc = "done", ![r].resp = returned]
     /\ UNCHANGED <<tickets, comments, now, writes, formatted>>

(***************************************************************************)
(* Request inputs.                                                         *)
(***************************************************************************)
AgentNames == {Some("Mike Chen")}

Remarks == {Null}

PriorityInputs == {Null, Some("LOW"), Some("URGENT")}

PriorityReasons == {Some("Key account")}

\* "Fixed" (5), " Rebooted. " (9 after trim), " Restarted. " (10 after trim)
NoteFixed == <<"F", "i", "x", "e", "d">>
NoteRebooted == <<" ", "R", "e", "b", "o", "o", "t", "e", "d", ".", " ">>
NoteRestarted == <<" ", "R", "e", "s", "t", "a", "r", "t", "e", "d", ".", " ">>

ResolutionNotes ==
  {Null, Some(NoteFixed), Some(NoteRebooted), Some(NoteRestarted)}

\* "VIP"
EscalateReasons == {Some(<<"V", "I", "P">>)}

\* "  no   " (2 after trim), "Again" (5)
ReopenReasons ==
  {Null, Some(<<" ", " ", "n", "o", " ", " ", " ">>),
   Some(<<"A", "g", "a", "i", "n">>)}

\* "Login" (5), "Bug" (3), " Bugs  " (4 after trim)
TitleLogin == <<"L", "o", "g", "i", "n">>
TitleBug == <<"B", "u", "g">>
TitleBugs == <<" ", "B", "u", "g", "s", " ", " ">>

\* "No network" (10), "No screen" (9)
DescNoNetwork == <<"N", "o", " ", "n", "e", "t", "w", "o", "r", "k">>
DescNoScreen == <<"N", "o", " ", "s", "c", "r", "e", "e", "n">>

ValidPayload ==
  [title |-> Some(TitleLogin), description |-> Some(DescNoNetwork),
   reporter_ID |-> Some("emp-0001")]

CreatePayloads ==
  { \* a category with an SLA, the priority left to its default
    [category_ID |-> Some("cat-0002")] @@ ValidPayload,
    \* a category without SLA hours, a null priority, a status sent by the client
    [category_ID |-> Some("cat-0003"), priority |-> Null,
     status |-> "CLOSED"] @@ ValidPayload,
    \* invalid payloads
    [title |-> Some(TitleBugs)] @@ ValidPayload,
    [description |-> Some(DescNoScreen)] @@ ValidPayload,
    [title |-> Some(TitleLogin), description |-> Some(DescNoNetwork)],
    [title |-> Some(TitleBug), description |-> Some(DescNoScreen)] }

UpdatePayloads ==
  { [status |-> "ON_HOLD"],
    [priority |-> Some("URGENT")],
    [status |-> "CLOSED"],
    [title |-> Some(TitleLogin)] }

\* the tickets a request names: a stored one, or an ID that is not stored
RequestIDs == DOMAIN tickets \cup {NewID}

(***************************************************************************)
(* The state machine.                                                      *)
(***************************************************************************)
Init ==
  /\ tickets = <<>>
  /\ comments = <<>>
  /\ auditLogs = <<>>
  /\ now = 0
  /\ resp = NoResponse
  /\ writes = 0
  /\ requests = <<>>
  /\ formatted = NotFormatted(EpochYear, 0)

\* the six workflow actions
Workflow ==
  \/ \E ticketID \in RequestIDs, agentID \in AgentIDs, remarks \in Remarks :
       assignAgent(ticketID, agentID, remarks)
  \/ \E ticketID \in RequestIDs, priority \in PriorityInputs,
        reason \in PriorityReasons :
       changePriority(ticketID, priority, reason)
  \/ \E ticketID \in RequestIDs, note \in ResolutionNotes,
        agentName \in AgentNames :
       resolveTicket(ticketID, note, agentName)
  \/ \E ticketID \in RequestIDs, agentName \in AgentNames :
       closeTicket(ticketID, agentName)
  \/ \E ticketID \in RequestIDs, reason \in EscalateReasons,
        agentName \in AgentNames :
       escalateTicket(ticketID, reason, agentName)
  \/ \E ticketID \in RequestIDs, reason \in ReopenReasons,
        agentName \in AgentNames :
       reopenTicket(ticketID, reason, agentName)

\* the lifecycle operations: create and the six workflow actions
Lifecycle ==
  \/ \E payload \in CreatePayloads : CreateTicket(payload)
  \/ Workflow

Next ==
  \/ Lifecycle
  \/ \E ticketID \in RequestIDs, payload \in UpdatePayloads :
       UpdateTickets(ticketID, payload)

Spec == Init /\ [][Next]_vars

\* the service driven by lifecycle operations only (no generic update)
NextLifecycle == Lifecycle

SpecLifecycle == Init /\ [][NextLifecycle]_vars

\* the keys of a read: the collection, a stored ticket, an ID not stored
ReadKeys == {Null} \cup {Some(id) : id \in RequestIDs}

\* valid creates with a category that has SLA hours, with one that has
\* none, and without category
ClockPayloads ==
  {payload \in CreatePayloads : beforeCreateErrors(payload) = NoErrors}
    \cup {ValidPayload}

\* the lifecycle operations, with time passing between requests
NextClock ==
  \/ \E payload \in ClockPayloads : CreateTicket(payload)
  \/ Workflow
  \/ Tick

SpecClock == Init /\ [][NextClock]_vars

\* tickets created, resolved and read, with time passing between requests
NextRead ==
  \/ \E payload \in CreatePayloads : CreateTicket(payload)
  \/ \E ticketID \in RequestIDs, note \in ResolutionNotes,
        agentName \in AgentNames :
       resolveTicket(ticketID, note, agentName)
  \/ \E key \in ReadKeys : ReadTickets(key)
  \/ Tick

SpecRead == Init /\ [][NextRead]_vars

\* the notes of the concurrent requests: one too short, one long enough
RaceNotes == {Some(NoteFixed), Some(NoteRestarted)}

\* tickets are created, and resolveTicket requests run concurrently, each
\* one statement at a time
NextRace ==
  \/ CreateTicket(ValidPayload)
  \/ \E ticketID \in RequestIDs, note \in RaceNotes,
        agentName \in AgentNames :
       resolveReceive(ticketID, note, agentName)
  \/ \E r \in DOMAIN requests : resolveSelect(r)
  \/ \E r \in DOMAIN requests : resolveUpdate(r)
  \/ \E r \in DOMAIN requests : resolveComment(r)
  \/ \E r \in DOMAIN requests : resolveAudit(r)
  \/ \E r \in DOMAIN requests : resolveReturn(r)

SpecRace == Init /\ [][NextRace]_vars

\* resolveTicket requests run one statement at a time, and an insert that
\* follows the update of the ticket can fail
NextFailure ==
  \/ NextRace
  \/ \E r \in DOMAIN requests : resolveCommentFails(r)
  \/ \E r \in DOMAIN requests : resolveAuditFails(r)

SpecFailure == Init /\ [][NextFailure]_vars

\* tickets are created and deleted, one request at a time, as time passes
NextDelete ==
  \/ \E payload \in CreatePayloads : CreateTicket(payload)
  \/ \E ticketID \in RequestIDs : DeleteTickets(ticketID)
  \/ Tick

SpecDelete == Init /\ [][NextDelete]_vars

\* the payloads of the concurrent creates: valid ones, with and without a
\* category, and one without reporter
RacePayloads ==
  { ValidPayload,
    [category_ID |-> Some("cat-0002")] @@ ValidPayload,
    [title |-> Some(TitleLogin), description |-> Some(DescNoNetwork)] }

\* tickets are created by requests that run concurrently, each one
\* statement at a time
NextCreateRace ==
  \/ \E payload \in RacePayloads : createReceive(payload)
  \/ \E r \in DOMAIN requests : createCount(r)
  \/ \E r \in DOMAIN requests : createInsert(r)
  \/ \E r \in DOMAIN requests : createAudit(r)

SpecCreateRace == Init /\ [][NextCreateRace]_vars

\* the counts of stored tickets around which the sequence gains a digit
Totals ==
  (0..NearRollover)
    \cup {t \in {10^k - 1 + d : k \in 1..5, d \in -NearRollover..NearRollover} :
            t >= 0}

\* ticket numbering: tickets are created as time passes, and the number is
\* formatted for the years of the clock and the counts in Totals
InitNumbering ==
  /\ tickets = <<>>
  /\ comments = <<>>
  /\ auditLogs = <<>>
  /\ now = 0
  /\ resp = NoResponse
  /\ writes = 0
  /\ requests = <<>>
  /\ formatted \in {NotFormatted(getFullYear(t), total) :
                      t \in Instants, total \in Totals}

NextNumbering ==
  \/ \E payload \in CreatePayloads : CreateTicket(payload)
  \/ Tick
  \/ FormatTicketNumber

SpecNumbering == InitNumbering /\ [][NextNumbering]_vars

(***************************************************************************)
(* Properties.                                                             *)
(* A step property has the form "every step that is an execution of the    *)
(* handler on these inputs ends as stated": the handler's action is the    *)
(* premise, the statement about the two states is written on its own.      *)
(***************************************************************************)
Stored == DOMAIN tickets

statusOf(ticketID) == tickets[ticketID].status

StoreUnchanged == UNCHANGED <<tickets, comments, auditLogs>>

\* the message of the (first) error of the last response
ErrorMessage == IF resp.errors = NoErrors THEN "" ELSE resp.errors[1].message

\* C1: closeTicket on a stored ticket succeeds exactly when the ticket is
\* RESOLVED: it then is CLOSED with closedAt set; from every other status
\* the answer is 409 and tickets, comments and audit log are unchanged.
C1_CloseIffResolved ==
  [][\A ticketID \in Stored, agentName \in AgentNames :
       closeTicket(ticketID, agentName) =>
         IF statusOf(ticketID) = "RESOLVED"
           THEN /\ resp'.code = 200
                /\ tickets'[ticketID].status = "CLOSED"
                /\ tickets'[ticketID].closedAt # Null
           ELSE /\ resp'.code = 409
                /\ StoreUnchanged]_vars

\* a ticket was closed from RESOLVED, and a later closeTicket on a ticket
\* that is not RESOLVED was refused
C1_Witness ==
  /\ \E i \in DOMAIN auditLogs :
        /\ auditLogs[i].action = "Ticket Closed"
        /\ auditLogs[i].ticket_ID \in Stored
        /\ tickets[auditLogs[i].ticket_ID].status = "CLOSED"
        /\ tickets[auditLogs[i].ticket_ID].closedAt # Null
  /\ \E ticketID \in Stored : statusOf(ticketID) = "OPEN"
  /\ resp.code = 409
  /\ ErrorMessage =
       "Only resolved tickets can be closed. Please resolve the ticket first"

\* the audit records written for a ticket, oldest first
auditOf(ticketID) ==
  SelectSeq(auditLogs, LAMBDA entry : entry.ticket_ID = ticketID)

C3_ClosedRejectsUpdate ==
  [][\A ticketID \in Stored, payload \in UpdatePayloads :
       statusOf(ticketID) = "CLOSED" =>
         \/ /\ resp'.code = 409
            /\ tickets' = tickets
         \/ ~UpdateTickets(ticketID, payload)]_vars

\* an update of a ticket closed by closeTicket was refused
C3_Witness ==
  \E ticketID \in Stored :
    /\ statusOf(ticketID) = "CLOSED"
    /\ tickets[ticketID].closedAt # Null
    /\ resp.code = 409
    /\ ErrorMessage = "Ticket " \o Text(tickets[ticketID].ticketNumber)
                        \o " is closed and cannot be modified"

\* this step appends exactly one audit record, and it references ticketID
AppendsOneFor(ticketID) ==
  /\ Len(auditLogs') = Len(auditLogs) + 1
  /\ SubSeq(auditLogs', 1, Len(auditLogs)) = auditLogs
  /\ auditLogs'[Len(auditLogs')].ticket_ID = ticketID

\* this step is an execution of a workflow action on ticketID
assignAgentOn(ticketID) ==
  \E agentID \in AgentIDs, remarks \in Remarks :
    assignAgent(ticketID, agentID, remarks)

changePriorityOn(ticketID) ==
  \E priority \in PriorityInputs, reason \in PriorityReasons :
    changePriority(ticketID, priority, reason)

resolveTicketOn(ticketID) ==
  \E note \in ResolutionNotes, agentName \in AgentNames :
    resolveTicket(ticketID, note, agentName)

closeTicketOn(ticketID) ==
  \E agentName \in AgentNames : closeTicket(ticketID, agentName)

escalateTicketOn(ticketID) ==
  \E reason \in EscalateReasons, agentName \in AgentNames :
    escalateTicket(ticketID, reason, agentName)

reopenTicketOn(ticketID) ==
  \E reason \in ReopenReasons, agentName \in AgentNames :
    reopenTicket(ticketID, reason, agentName)

WorkflowActionOn(ticketID) ==
  \/ assignAgentOn(ticketID)
  \/ changePriorityOn(ticketID)
  \/ resolveTicketOn(ticketID)
  \/ closeTicketOn(ticketID)
  \/ escalateTicketOn(ticketID)
  \/ reopenTicketOn(ticketID)

\* C4: every successful lifecycle operation (create and the six workflow
\* actions) appends exactly one audit record, which references the ticket
\* created or acted on; the earlier records stay as they are.
C4_OneAuditRecordPerOperation ==
  [][/\ \A payload \in CreatePayloads :
          resp'.code = 201 /\ CreateTicket(payload) =>
            /\ Cardinality(DOMAIN tickets' \ Stored) = 1
            /\ \A ticketID \in DOMAIN tickets' \ Stored :
                 AppendsOneFor(ticketID)
     /\ \A ticketID \in Stored :
          resp'.code = 200 /\ WorkflowActionOn(ticketID) =>
            AppendsOneFor(ticketID)]_vars

\* two tickets, four operations, four records: two for each ticket
C4_Witness ==
  /\ Len(auditLogs) = 4
  /\ Cardinality(Stored) = 2
  /\ \A ticketID \in Stored : Len(auditOf(ticketID)) = 2
  /\ auditLogs[4].action # "Ticket Created"

\* the status of ticket t changes in this step
StatusChanges(t) == tickets'[t].status # tickets[t].status

\* the status change of ticket t in this step is one made on ticketID, from
\* a status in from to the status to
Moves(t, ticketID, from, to) ==
  /\ t = ticketID
  /\ tickets[t].status \in from
  /\ tickets'[t].status = to

\* every status change of this step, if a workflow action made it, is a
\* transition of that action (assignAgent starting from assignFrom)
LegalTransitions(assignFrom) ==
  \A t \in Stored :
    StatusChanges(t) =>
      \A ticketID \in Stored :
        /\ assignAgentOn(ticketID) =>
             Moves(t, ticketID, assignFrom, "IN_PROGRESS")
        /\ changePriorityOn(ticketID) => FALSE
        /\ resolveTicketOn(ticketID) =>
             Moves(t, ticketID, {"OPEN", "IN_PROGRESS", "ON_HOLD"}, "RESOLVED")
        /\ closeTicketOn(ticketID) =>
             Moves(t, ticketID, {"RESOLVED"}, "CLOSED")
        /\ escalateTicketOn(ticketID) =>
             Moves(t, ticketID, {"OPEN", "ON_HOLD"}, "IN_PROGRESS")
        /\ reopenTicketOn(ticketID) =>
             Moves(t, ticketID, {"RESOLVED", "CLOSED"}, "OPEN")

\* C5 (as amended): every status change made by a workflow action is one of:
\* assignAgent to IN_PROGRESS from any status but CLOSED (OPEN, ON_HOLD,
\* RESOLVED); escalateTicket to IN_PROGRESS from OPEN or ON_HOLD;
\* resolveTicket to RESOLVED from OPEN, IN_PROGRESS or ON_HOLD; closeTicket
\* to CLOSED from RESOLVED; reopenTicket to OPEN from RESOLVED or CLOSED.
C5_LegalTransitions ==
  [][LegalTransitions({"OPEN", "ON_HOLD", "RESOLVED"})]_vars

\* C5 (as claimed): the same, with assignAgent changing the status to
\* IN_PROGRESS only from OPEN (or leaving IN_PROGRESS as it is).
C5_AssignOnlyFromOpen ==
  [][LegalTransitions({"OPEN"})]_vars

\* assignAgent took a RESOLVED ticket back to IN_PROGRESS
C5_Witness ==
  \E ticketID \in Stored :
    /\ Len(auditOf(ticketID)) = 3
    /\ auditOf(ticketID)[2].action = "Ticket Resolved"
    /\ auditOf(ticketID)[3].action = "Agent Assigned"
    /\ statusOf(ticketID) = "IN_PROGRESS"
    /\ tickets[ticketID].assignedTo_ID = Some("agt-0001")

\* a text parameter that is missing, or shorter than n characters once the
\* blanks at its ends are removed
ShorterThan(text, n) == text = Null \/ Len(Trim(Val(text))) < n

\* the resolution notes that are too short, and those that are long enough
ShortNotes == {note \in ResolutionNotes : ShorterThan(note, 10)}

LongNotes == ResolutionNotes \ ShortNotes

\* a resolveTicket with a too short note writes nothing; it is answered 400,
\* or codeIfResolved when the ticket is RESOLVED or CLOSED (a step that does
\* not end so is not such a resolveTicket)
ShortNoteRefused(codeIfResolved) ==
  \A ticketID \in Stored, note \in ShortNotes, agentName \in AgentNames :
    \/ /\ resp'.code = (IF statusOf(ticketID) \in {"RESOLVED", "CLOSED"}
                           THEN codeIfResolved ELSE 400)
       /\ StoreUnchanged
    \/ ~resolveTicket(ticketID, note, agentName)

\* C6 (as amended): a resolveTicket whose note is missing or shorter than
\* 10 characters after trimming changes nothing; the answer is 400 when the
\* ticket is OPEN, IN_PROGRESS or ON_HOLD, and 409 when it is RESOLVED or
\* CLOSED (the status is tested before the note).
C6_ShortNoteChangesNothing ==
  [][ShortNoteRefused(409)]_vars

\* C6 (as claimed): whatever the ticket's status, the answer is 400 and
\* nothing changes.
C6_ShortNoteIs400 ==
  [][ShortNoteRefused(400)]_vars

\* a ticket on hold, and a resolve refused for its note
C6_Witness ==
  /\ \E ticketID \in Stored : statusOf(ticketID) = "ON_HOLD"
  /\ resp.code = 400
  /\ ErrorMessage = "Resolution note must be at least 10 characters long"

\* the escalation table of the claim
C7_next(priority) ==
  IF priority = Some("LOW") THEN "MEDIUM"
  ELSE IF priority = Some("MEDIUM") THEN "HIGH"
  ELSE IF priority = Some("HIGH") THEN "CRITICAL"
  ELSE IF priority = Some("CRITICAL") THEN "CRITICAL"
  ELSE "HIGH"

C7_rank(priority) ==
  IF priority = Some("LOW") THEN 1
  ELSE IF priority = Some("MEDIUM") THEN 2
  ELSE IF priority = Some("HIGH") THEN 3
  ELSE 4

\* C7: escalateTicket on a ticket that is OPEN, IN_PROGRESS or ON_HOLD sets
\* the priority to next(P) and the status to IN_PROGRESS; a recognized
\* priority is never lowered and CRITICAL stays CRITICAL.  On a RESOLVED or
\* CLOSED ticket the answer is 409 and nothing changes.
C7_EscalateSteps ==
  [][\A ticketID \in Stored, reason \in EscalateReasons,
        agentName \in AgentNames :
       escalateTicket(ticketID, reason, agentName) =>
         IF statusOf(ticketID) \in {"OPEN", "IN_PROGRESS", "ON_HOLD"}
           THEN /\ resp'.code = 200
                /\ tickets'[ticketID].priority
                     = Some(C7_next(tickets[ticketID].priority))
                /\ tickets'[ticketID].status = "IN_PROGRESS"
                /\ tickets[ticketID].priority # Null
                     /\ Val(tickets[ticketID].priority) \in TicketPriority
                   => C7_rank(tickets'[ticketID].priority)
                        >= C7_rank(tickets[ticketID].priority)
                /\ tickets[ticketID].priority = Some("CRITICAL")
                   => tickets'[ticketID].priority = Some("CRITICAL")
           ELSE /\ resp'.code = 409
                /\ StoreUnchanged]_vars

\* a ticket escalated up to CRITICAL and escalated once more
C7_Witness ==
  \E ticketID \in Stored :
    /\ Len(auditOf(ticketID)) = 4
    /\ auditOf(ticketID)[4].action = "Ticket Escalated"
    /\ auditOf(ticketID)[4].oldValue = Some("Priority: CRITICAL")
    /\ auditOf(ticketID)[4].newValue = Some("Priority: CRITICAL")
    /\ tickets[ticketID].priority = Some("CRITICAL")
    /\ statusOf(ticketID) = "IN_PROGRESS"

\* C8: reopenTicket on a CLOSED or RESOLVED ticket with a reason of at least
\* 5 characters (after trimming) succeeds: the status is OPEN, and
\* resolvedAt, closedAt and resolutionNote are null.
C8_ReopenClears ==
  [][\A ticketID \in Stored, reason \in ReopenReasons,
        agentName \in AgentNames :
       /\ statusOf(ticketID) \in {"CLOSED", "RESOLVED"}
       /\ ~ShorterThan(reason, 5)
       /\ reopenTicket(ticketID, reason, agentName)
       => /\ resp'.code = 200
          /\ tickets'[ticketID].status = "OPEN"
          /\ tickets'[ticketID].resolvedAt = Null
          /\ tickets'[ticketID].closedAt = Null
          /\ tickets'[ticketID].resolutionNote = Null]_vars

\* a CLOSED ticket, with its note and both timestamps, was reopened
C8_Witness ==
  \E ticketID \in Stored :
    /\ Len(auditOf(ticketID)) = 4
    /\ auditOf(ticketID)[4].action = "Ticket Reopened"
    /\ auditOf(ticketID)[4].oldValue = Some("CLOSED")
    /\ statusOf(ticketID) = "OPEN"
    /\ tickets[ticketID].resolutionNote = Null
    /\ resp.code = 200

\* C9: resolveTicket on a ticket that is RESOLVED or CLOSED is answered 409
\* "Ticket is already resolved" / "Ticket is already closed" and changes
\* nothing; so a second resolveTicket right after a successful one fails.
C9_ResolveTwiceConflicts ==
  [][\A ticketID \in Stored, note \in ResolutionNotes,
        agentName \in AgentNames :
       /\ statusOf(ticketID) \in {"RESOLVED", "CLOSED"}
       /\ resolveTicket(ticketID, note, agentName)
       => /\ resp'.code = 409
          /\ resp'.errors[1].message =
               (IF statusOf(ticketID) = "RESOLVED"
                  THEN "Ticket is already resolved"
                  ELSE "Ticket is already closed")
          /\ StoreUnchanged]_vars

\* a ticket resolved by resolveTicket, and a second resolveTicket refused
C9_Witness ==
  /\ \E ticketID \in Stored :
       /\ statusOf(ticketID) = "RESOLVED"
       /\ auditOf(ticketID)[Len(auditOf(ticketID))].action = "Ticket Resolved"
  /\ resp.code = 409
  /\ ErrorMessage = "Ticket is already resolved"

\* C10: resolveTicket on a ticket that is OPEN, IN_PROGRESS or ON_HOLD, with
\* a note of at least 10 characters, succeeds: the status is RESOLVED,
\* resolvedAt is set, the note is stored on the ticket as sent, and exactly
\* one comment is added, which is public and belongs to that ticket.
C10_ResolveEffects ==
  [][\A ticketID \in Stored, note \in LongNotes, agentName \in AgentNames :
       /\ statusOf(ticketID) \in {"OPEN", "IN_PROGRESS", "ON_HOLD"}
       /\ resolveTicket(ticketID, note, agentName)
       => /\ resp'.code = 200
          /\ tickets'[ticketID].status = "RESOLVED"
          /\ tickets'[ticketID].resolvedAt # Null
          /\ tickets'[ticketID].resolutionNote = note
          /\ Len(comments') = Len(comments) + 1
          /\ SubSeq(comments', 1, Len(comments)) = comments
          /\ comments'[Len(comments')].ticket_ID = ticketID
          /\ comments'[Len(comments')].isInternal = FALSE]_vars

\* a ticket on hold was resolved: its note and its public comment are stored
C10_Witness ==
  \E ticketID \in Stored :
    /\ statusOf(ticketID) = "RESOLVED"
    /\ tickets[ticketID].resolvedAt # Null
    /\ tickets[ticketID].resolutionNote = Some(NoteRestarted)
    /\ auditOf(ticketID)[Len(auditOf(ticketID))].oldValue = Some("ON_HOLD")
    /\ \E i \in DOMAIN comments :
         comments[i].ticket_ID = ticketID /\ ~comments[i].isInternal

\* the agents that exist and are active
ActiveAgentIDs == {a.ID : a \in {b \in Agents : b.isActive}}

\* C11: assignAgent succeeds only on a stored ticket that is not CLOSED and
\* for an agent that exists and is active; then the ticket's assignee is that
\* agent and its status is IN_PROGRESS.  A missing ticket is answered 404, a
\* CLOSED ticket 409, and a missing or inactive agent (on a ticket that is
\* not CLOSED) 404; in these cases nothing is written.
C11_AssignOnlyActiveAgent ==
  [][\A ticketID \in RequestIDs, agentID \in AgentIDs, remarks \in Remarks :
       \/ IF ticketID \notin Stored
            THEN resp'.code = 404 /\ StoreUnchanged
          ELSE IF statusOf(ticketID) = "CLOSED"
            THEN resp'.code = 409 /\ StoreUnchanged
          ELSE IF agentID \notin ActiveAgentIDs
            THEN resp'.code = 404 /\ StoreUnchanged
          ELSE /\ resp'.code = 200
               /\ tickets'[ticketID].assignedTo_ID = Some(agentID)
               /\ tickets'[ticketID].status = "IN_PROGRESS"
       \/ ~assignAgent(ticketID, agentID, remarks)]_vars

\* a ticket assigned to the active agent, and an assignment of the inactive
\* agent refused
C11_Witness ==
  /\ \E ticketID \in Stored :
       /\ tickets[ticketID].assignedTo_ID = Some("agt-0001")
       /\ statusOf(ticketID) = "IN_PROGRESS"
  /\ resp.code = 404
  /\ ErrorMessage = "Active agent not found: agt-0009"

\* the payload of a create that passes validation: a title of at least 5
\* and a description of at least 10 characters after trimming, a reporter
ValidForCreate(payload) ==
  /\ ~ShorterThan(Get(payload, "title"), 5)
  /\ ~ShorterThan(Get(payload, "description"), 10)
  /\ Get(payload, "reporter_ID") # Null

IsDigit(c) == \E i \in DOMAIN DigitChars : DigitChars[i] = c

AllDigits(s) == \A i \in DOMAIN s : IsDigit(s[i])

\* TKT-<4 digits>-<digits>, the sequence having one of the given widths
TicketNumberForm(number, widths) ==
  /\ Len(number) >= 10
  /\ SubSeq(number, 1, 4) = <<"T", "K", "T", "-">>
  /\ AllDigits(SubSeq(number, 5, 8))
  /\ number[9] = "-"
  /\ AllDigits(SubSeq(number, 10, Len(number)))
  /\ (Len(number) - 9) \in widths

\* the widths of the sequence for a count of stored tickets: always 5
\* (alwaysFive), or 5 up to the 99,999th ticket and more from then on
SequenceWidths(total, alwaysFive) ==
  IF alwaysFive \/ total < 99999 THEN {5} ELSE 6..20

\* every create, and every formatting of a ticket number, ends as stated
CreateChecked(alwaysFive) ==
  /\ \A payload \in CreatePayloads :
       \/ IF ValidForCreate(payload)
            THEN /\ resp'.code = 201
                 /\ \E id \in DOMAIN tickets' \ Stored :
                      /\ DOMAIN tickets' = Stored \cup {id}
                      /\ tickets'[id].status = "OPEN"
                      /\ TicketNumberForm(tickets'[id].ticketNumber,
                           SequenceWidths(Cardinality(Stored), alwaysFive))
                 /\ \A id \in Stored : tickets'[id] = tickets[id]
            ELSE /\ resp'.code = 400
                 /\ StoreUnchanged
       \/ ~CreateTicket(payload)
  /\ FormatTicketNumber =>
       TicketNumberForm(formatted'.ticketNumber,
         SequenceWidths(formatted.total, alwaysFive))

C13_AuditAppendOnly ==
  [][/\ Len(auditLogs') >= Len(auditLogs)
     /\ \A i \in DOMAIN auditLogs : auditLogs'[i] = auditLogs[i]]_vars

\* records of several operations on a ticket, the first one its creation
C13_Witness ==
  /\ Len(auditLogs) >= 3
  /\ auditLogs[1].action = "Ticket Created"
  /\ auditLogs[2].action = "Ticket Resolved"
  /\ auditLogs[3].action = "Ticket Closed"
  /\ auditLogs[3].ticket_ID = auditLogs[1].ticket_ID

\* the number that a sequence of digits writes
RECURSIVE NatOf(_)
NatOf(digits) ==
  IF digits = <<>> THEN 0
  ELSE 10 * NatOf(SubSeq(digits, 1, Len(digits) - 1))
         + (CHOOSE i \in DOMAIN DigitChars :
              DigitChars[i] = digits[Len(digits)]) - 1

\* the instant a stored ticket was created, from its audit record
createdAt(id) ==
  auditLogs[CHOOSE i \in DOMAIN auditLogs :
              /\ auditLogs[i].ticket_ID = id
              /\ auditLogs[i].action = "Ticket Created"].performedAt

\* the tickets created in the calendar year of ticket id, up to id itself
\* (IDs are given in creation order)
EarlierInYear(id) ==
  {j \in Stored : j <= id /\ getFullYear(createdAt(j)) = getFullYear(createdAt(id))}

\* C14 (as claimed): the n-th ticket created in calendar year Y has the
\* number TKT-Y-<n padded to 5 digits>: the sequence restarts every year.
C14_SequencePerYear ==
  \A id \in Stored :
    LET number == tickets[id].ticketNumber
    IN /\ TicketNumberForm(number, {5})
       /\ NatOf(SubSeq(number, 5, 8)) = getFullYear(createdAt(id))
       /\ NatOf(SubSeq(number, 10, Len(number))) = Cardinality(EarlierInYear(id))

\* the first ticket created in the year after the epoch year is numbered
\* 00002: the sequence counts the tickets of all years
C14_Witness ==
  \E id \in Stored :
    /\ getFullYear(createdAt(id)) = EpochYear + 1
    /\ EarlierInYear(id) = {id}
    /\ tickets[id].ticketNumber
         = <<"T", "K", "T", "-", "2", "0", "2", "5", "-", "0", "0", "0", "0", "2">>

\* the SLA hours that apply to a stored ticket: those of its category, if it
\* has a category and the category has SLA hours
slaHoursOf(id) ==
  {Val(c.slaHours) : c \in {d \in Categories :
                               /\ Some(d.ID) = tickets[id].category_ID
                               /\ d.slaHours # Null}}

C16_ChangePriorityOnly ==
  [][\A ticketID \in Stored, priority \in PriorityInputs,
        reason \in PriorityReasons :
       \/ IF priority \in {Some("LOW"), Some("MEDIUM"), Some("HIGH"),
                           Some("CRITICAL")}
            THEN /\ resp'.code = 200
                 /\ tickets' = [tickets EXCEPT ![ticketID].priority = priority]
                 /\ comments' = comments
            ELSE /\ resp'.code = 400
                 /\ StoreUnchanged
       \/ ~changePriority(ticketID, priority, reason)]_vars

\* the priority of a closed ticket was changed, and the ticket is still
\* closed; a later request with an unknown priority was refused
C16_Witness ==
  /\ \E ticketID \in Stored :
       /\ statusOf(ticketID) = "CLOSED"
       /\ tickets[ticketID].priority = Some("LOW")
       /\ auditOf(ticketID)[Len(auditOf(ticketID))].action = "Priority Changed"
       /\ auditOf(ticketID)[Len(auditOf(ticketID))].oldValue = Some("MEDIUM")
  /\ resp.code = 400
  /\ ErrorMessage = "Invalid priority. Must be one of: LOW, MEDIUM, HIGH, CRITICAL"

\* a stored ticket whose due date has passed and that is neither RESOLVED
\* nor CLOSED
PastDue(id) ==
  /\ tickets[id].dueDate # Null
  /\ Val(tickets[id].dueDate) < now
  /\ statusOf(id) \notin {"RESOLVED", "CLOSED"}

\* C17: every READ of Tickets, of the collection or of one ticket, leaves
\* the stored tickets as they were, and every ticket it returns whose due
\* date is earlier than the time of the read and whose status is neither
\* RESOLVED nor CLOSED is returned with isOverdue = true.
C17_OverdueOnRead ==
  [][\A key \in ReadKeys :
       ReadTickets(key) =>
         /\ tickets' = tickets
         /\ key = Null =>
              /\ DOMAIN Val(resp'.data).value = Stored
              /\ \A id \in Stored :
                   PastDue(id) => Val(resp'.data).value[id].isOverdue
         /\ key # Null /\ Val(key) \in Stored =>
              /\ Val(resp'.data).ID = Val(key)
              /\ PastDue(Val(key)) => Val(resp'.data).isOverdue]_vars

\* a read returned a ticket flagged overdue whose stored flag is still
\* false, together with a resolved ticket past its due date
C17_Witness ==
  /\ resp.code = 200
  /\ resp.data # Null
  /\ DOMAIN Val(resp.data) = {"value"}
  /\ \E id, other \in Stored :
       /\ PastDue(id)
       /\ Val(resp.data).value[id].isOverdue
       /\ ~tickets[id].isOverdue
       /\ statusOf(other) = "RESOLVED"
       /\ tickets[other].dueDate = Some(1)
       /\ ~Val(resp.data).value[other].isOverdue

\* C18 (as claimed): every step that stores a new ticket or changes a stored
\* one appends an audit record for that ticket, a generic update included.
C18_EveryChangeAudited ==
  [][\A id \in DOMAIN tickets' :
       id \notin Stored \/ tickets'[id] # tickets[id] =>
         /\ Len(auditLogs') = Len(auditLogs) + 1
         /\ auditLogs'[Len(auditLogs')].ticket_ID = id]_vars

\* a ticket put on hold by a generic update: its only audit record is the
\* one of its creation
C18_Witness ==
  \E id \in Stored :
    /\ statusOf(id) = "ON_HOLD"
    /\ resp.code = 200
    /\ Len(auditOf(id)) = 1
    /\ auditOf(id)[1].action = "Ticket Created"

\* C19: a workflow action that ends in an error (404, 409 or 400) has made
\* all its tests before its first write: tickets, comments and audit log
\* are as they were before the request.
C19_ErrorsWriteNothing ==
  [][resp'.code >= 400 => StoreUnchanged \/ ~Workflow]_vars

\* with tickets, comments and audit records stored, a reopen of a resolved
\* ticket was refused for its reason
C19_Witness ==
  /\ \E id \in Stored : statusOf(id) = "RESOLVED"
  /\ comments # <<>>
  /\ Len(auditLogs) >= 2
  /\ resp.code = 400
  /\ ErrorMessage = "A reason must be provided to reopen a ticket"

\* a request in flight whose SELECT returned a ticket that is neither
\* RESOLVED nor CLOSED and whose note is long enough
PassesChecks(r) ==
  /\ requests[r].ticket # Null
  /\ Val(requests[r].ticket).status \notin {"RESOLVED", "CLOSED"}
  /\ ~ShorterThan(requests[r].resolutionNote, 10)

\* the records of a given action in the audit log of a ticket
auditsOf(ticketID, action) ==
  SelectSeq(auditLogs,
    LAMBDA entry : entry.ticket_ID = ticketID /\ entry.action = action)

\* the comments of a ticket
commentsOf(ticketID) ==
  SelectSeq(comments, LAMBDA entry : entry.ticket_ID = ticketID)

\* C20: concurrent resolveTicket requests can race.  A request tests the
\* status that its own SELECT returned and then writes with no lock and no
\* test of the stored status: once its checks have passed, its update
\* stores RESOLVED whatever the ticket has become meanwhile, and it goes on
\* to add its comment and its audit record.  (C20_Witness is the race: two
\* requests on one ticket both succeed.)
C20_ResolveWritesUnconditionally ==
  [][\A r \in DOMAIN requests :
       /\ PassesChecks(r) /\ resolveUpdate(r) =>
            /\ tickets'[requests[r].ticketID].status = "RESOLVED"
            /\ tickets'[requests[r].ticketID].resolutionNote
                 = requests[r].resolutionNote
            /\ requests'[r].pc = "comment"
       /\ resolveComment(r) =>
            Len(commentsOf(requests[r].ticketID)')
              = Len(commentsOf(requests[r].ticketID)) + 1
       /\ resolveAudit(r) =>
            Len(auditsOf(requests[r].ticketID, "Ticket Resolved")')
              = Len(auditsOf(requests[r].ticketID, "Ticket Resolved")) + 1
       /\ resolveReturn(r) => requests'[r].resp.code = 200]_vars

\* two requests on the same ticket have both been answered 200, and the
\* ticket has two 'Ticket Resolved' audit records, both from OPEN, and two
\* resolution comments
C20_Witness ==
  \E r1, r2 \in DOMAIN requests :
    /\ r1 # r2
    /\ requests[r1].ticketID = requests[r2].ticketID
    /\ requests[r1].pc = "done" /\ requests[r1].resp.code = 200
    /\ requests[r2].pc = "done" /\ requests[r2].resp.code = 200
    /\ LET resolved == auditsOf(requests[r1].ticketID, "Ticket Resolved")
       IN /\ Len(resolved) = 2
          /\ resolved[1].oldValue = Some("OPEN")
          /\ resolved[2].oldValue = Some("OPEN")
    /\ Len(commentsOf(requests[r1].ticketID)) = 2

\* a create request in flight whose row has been inserted
Inserted(r) == requests[r].ticket # Null

\* the ticket number stored by a create request whose row has been inserted
numberOf(r) == tickets[Val(requests[r].ticket)].ticketNumber

\* C21: two concurrent creates can produce duplicate ticket numbers.  A
\* request numbers its ticket from the count its own SELECT returned, and
\* the insert does not count again: two requests that counted the same
\* tickets in the same year (each counted before the other inserted) store
\* two tickets, under different keys, with the same ticketNumber.
\* (C21_Witness is the race: both creates succeed.)
C21_SameCountSameNumber ==
  \A r1, r2 \in DOMAIN requests :
    /\ r1 # r2
    /\ Inserted(r1) /\ Inserted(r2)
    /\ requests[r1].total = requests[r2].total
    /\ requests[r1].year = requests[r2].year
    => /\ requests[r1].ticket # requests[r2].ticket
       /\ numberOf(r1) = numberOf(r2)

\* two creates have both been answered 201 and the two stored tickets have
\* the same number, TKT-2024-00001
C21_Witness ==
  \E r1, r2 \in DOMAIN requests :
    /\ r1 # r2
    /\ requests[r1].pc = "done" /\ requests[r1].resp.code = 201
    /\ requests[r2].pc = "done" /\ requests[r2].resp.code = 201
    /\ Cardinality(Stored) = 2
    /\ \A id \in Stored :
         tickets[id].ticketNumber
           = <<"T", "K", "T", "-", "2", "0", "2", "4", "-", "0", "0", "0", "0", "1">>
    /\ Len(auditLogs) = 2

\* the resolveTicket requests on ticket t that are at one of the positions pcs
resolvesAt(t, pcs) ==
  {r \in DOMAIN requests : requests[r].ticketID = t /\ requests[r].pc \in pcs}

\* the resolveTicket requests on ticket t that were answered 200
resolvesDone(t) ==
  {r \in resolvesAt(t, {"done"}) : requests[r].resp.code = 200}

C23_ClosedIsFrozen ==
  [][\A t \in Stored :
       statusOf(t) = "CLOSED" =>
         \/ tickets'[t] = tickets[t]
         \/ resp'.code = 200 /\ reopenTicketOn(t)]_vars

\* a ticket was closed, and changePriority changed its priority afterwards:
\* it is still CLOSED, now with priority LOW
C23_Witness ==
  \E t \in Stored :
    /\ statusOf(t) = "CLOSED"
    /\ tickets[t].closedAt # Null
    /\ tickets[t].priority = Some("LOW")
    /\ Len(auditOf(t)) = 4
    /\ auditOf(t)[3].action = "Ticket Closed"
    /\ auditOf(t)[4].action = "Priority Changed"
    /\ auditOf(t)[4].newValue = Some("LOW")
    /\ resp.code = 200

\* ticket t is CLOSED after this step and was not before (or was not stored)
BecomesClosed(t) ==
  /\ tickets'[t].status = "CLOSED"
  /\ t \in Stored => statusOf(t) # "CLOSED"

\* C24 (as claimed): across all operations, create and generic update
\* included, every step that makes a ticket CLOSED is a closeTicket on that
\* ticket and starts from status RESOLVED.
C24_ClosedOnlyByCloseTicket ==
  [][\A t \in DOMAIN tickets' :
       BecomesClosed(t) =>
         /\ t \in Stored
         /\ statusOf(t) = "RESOLVED"
         /\ closeTicketOn(t)]_vars

\* a ticket that was never resolved is CLOSED, without closedAt: a generic
\* update set its status
C24_Witness ==
  \E t \in Stored :
    /\ statusOf(t) = "CLOSED"
    /\ tickets[t].closedAt = Null
    /\ tickets[t].resolvedAt = Null
    /\ Len(auditOf(t)) = 1
    /\ auditOf(t)[1].action = "Ticket Created"
    /\ resp.code = 200

\* C25 (as claimed): when requests run one at a time, no two stored tickets
\* have the same ticketNumber, also when tickets were deleted between
\* creations.
C25_TicketNumbersUnique ==
  \A id, other \in Stored :
    id # other => tickets[id].ticketNumber # tickets[other].ticketNumber

\* three tickets were created and the first was deleted before the third
\* was created: the two stored tickets are both numbered 00002
C25_Witness ==
  /\ Len(auditLogs) = 3
  /\ \A i \in DOMAIN auditLogs : auditLogs[i].action = "Ticket Created"
  /\ Stored = {2, 3}
  /\ tickets[2].ticketNumber = tickets[3].ticketNumber
  /\ NatOf(SubSeq(tickets[3].ticketNumber, 10, 14)) = 2
  /\ resp.code = 201

\* C26 (as claimed): the audit log tracks all status changes: every step of
\* a lifecycle operation that changes the status of a ticket, the moves to
\* IN_PROGRESS of assignAgent and escalateTicket included, appends an audit
\* record of that ticket whose old value is the status before and whose new
\* value is the status after (so that the status of a ticket is the new
\* value of its latest such record).
C26_StatusChangesAudited ==
  [][\A t \in Stored :
       StatusChanges(t) =>
         /\ Len(auditLogs') = Len(auditLogs) + 1
         /\ auditLogs'[Len(auditLogs')].ticket_ID = t
         /\ auditLogs'[Len(auditLogs')].oldValue = Some(tickets[t].status)
         /\ auditLogs'[Len(auditLogs')].newValue = Some(tickets'[t].status)]_vars

\* assignAgent moved an OPEN ticket to IN_PROGRESS: its audit record holds
\* agent labels, and no record of the ticket has IN_PROGRESS as new value
C26_Witness ==
  \E t \in Stored :
    /\ statusOf(t) = "IN_PROGRESS"
    /\ Len(auditOf(t)) = 2
    /\ auditOf(t)[1].newValue = Some("OPEN")
    /\ auditOf(t)[2].action = "Agent Assigned"
    /\ auditOf(t)[2].oldValue = Some("Unassigned")
    /\ auditOf(t)[2].newValue = Some("Agent: John Smith")
    /\ resp.code = 200

====
